---- MODULE Spec2Model ----
(***************************************************************************)
(* The metadata cache of the Salesforce MCP provider (src/unnamed/part_000):*)
(* the stale-while-revalidate org-schema cache, the per-object field cache, *)
(* the snapshot file and the gateway calls that feed them; and the child   *)
(* process of the query gateway with the 'close' listeners of part_000 and  *)
(* of packages/mcp-provider-api/http-server.js.  One action is one run of   *)
(* the event loop: a handler from its entry (or from the event that resumes *)
(* it) up to its next await or its return.                                  *)
(***************************************************************************)
EXTENDS Integers, Sequences, FiniteSets, TLC

(* ------------------------------ bounds --------------------------------- *)
\* Instants the clock runs for after the process starts.
MaxTime == 2
\* The same, for the specification that follows the sweep over a long run.
MaxSweepTime == 3
\* Request handlers that may be suspended at an await at the same time.
MaxCalls == 1
\* Lines a child process writes to its stdout, and chunks to its stderr.
MaxLines == 3

(* --------------------------- configuration ----------------------------- *)
\* Time is counted in sweep intervals (60000 ms, part_000:117).  Both TTLs are
\* read from the environment (part_000:16-17); the model runs a configuration
\* with a schema TTL of one interval and, as in the defaults, an object TTL
\* twice as long.
SCHEMA_CACHE_TTL == 1
OBJECT_CACHE_TTL == 2
SWEEP_INTERVAL == 1
ENABLE_PERSISTENT_CACHE == TRUE
\* The clock when the process starts: late enough for an expired snapshot file.
StartTime == SCHEMA_CACHE_TTL + 1

(* ------------------------------ values --------------------------------- *)
NULL == [null |-> TRUE]
UNDEFINED == [undefined |-> TRUE]
\* schemaCacheTime = null
NoTime == -1
\* JavaScript truthiness of a cache value: objects are truthy, even empty ones.
Truthy(v) == v # NULL /\ v # UNDEFINED
\* JavaScript truthiness of a timestamp: null and 0 are falsy.
TruthyTime(t) == t # NoTime /\ t # 0

Names == {"Account", "Contact"}

Rec(n, c) == [QualifiedApiName |-> n, Label |-> n, IsCustom |-> c]
\* A record the executor returned without its Label column.
RecNoLabel(n, c) == [QualifiedApiName |-> n, IsCustom |-> c]
\* Payloads the executor can answer an EntityDefinition query with: two
\* different record lists, and a reply without records (a JSON-RPC error).
PayloadA == [records |-> << Rec("Account", FALSE) >>]
PayloadB == [records |-> << Rec("Invoice__c", TRUE), Rec("Account", FALSE) >>]
PayloadError == [error |-> "INVALID_SESSION"]
OrgPayloads == { PayloadA, PayloadB, PayloadError }
PayloadNoLabel == [records |-> << RecNoLabel("Lead", FALSE) >>]
FieldRec == [QualifiedApiName |-> "Name", Label |-> "Name", DataType |-> "string"]
FieldPayload == [records |-> << FieldRec >>]
FieldPayloads == { FieldPayload, [error |-> "INVALID_TYPE"] }

\* A JavaScript object is the record of its properties that hold a value,
\* with `undef`, the names of its own properties that hold undefined.
\* objInfo = { apiName: obj.QualifiedApiName, label: obj.Label, isCustom: obj.IsCustom }
ObjInfo(obj) ==
    IF "Label" \in DOMAIN obj
    THEN [apiName |-> obj.QualifiedApiName, label |-> obj.Label,
          isCustom |-> obj.IsCustom, undef |-> {}]
    ELSE [apiName |-> obj.QualifiedApiName,
          isCustom |-> obj.IsCustom, undef |-> {"label"}]
MapObjInfo(s) == [i \in 1..Len(s) |-> ObjInfo(s[i])]
IsCustomRec(o) == o.IsCustom
IsStandardRec(o) == ~o.IsCustom
\* The partition of result.records into standard and custom objects.
BuildObjects(result) ==
    IF "records" \in DOMAIN result
    THEN [standard |-> MapObjInfo(SelectSeq(result.records, IsStandardRec)),
          custom |-> MapObjInfo(SelectSeq(result.records, IsCustomRec))]
    ELSE [standard |-> << >>, custom |-> << >>]

\* The hard-coded list getOrgSchema returns when its own fetch fails.
Fallback ==
    [standard |-> << [apiName |-> "Account", label |-> "Account", isCustom |-> FALSE, undef |-> {}],
                     [apiName |-> "Contact", label |-> "Contact", isCustom |-> FALSE, undef |-> {}],
                     [apiName |-> "Opportunity", label |-> "Opportunity", isCustom |-> FALSE, undef |-> {}] >>,
     custom |-> << >>]

\* fields: result.records || []
BuildObjectSchema(objectName, result) ==
    [objectName |-> objectName,
     fields |-> IF "records" \in DOMAIN result THEN result.records ELSE << >>]

(* The snapshot file: absent, cut short (not parseable), or one JSON text. *)
Absent == [absent |-> TRUE]
Partial == [partial |-> TRUE]
IsDocument(f) == f # Absent /\ f # Partial
CacheData(schema, timestamp) == [schema |-> schema, timestamp |-> timestamp]

\* JSON.stringify leaves out the properties that hold undefined.
StringifyObjInfo(o) == [o EXCEPT !.undef = {}]
StringifyList(l) == [i \in 1..Len(l) |-> StringifyObjInfo(l[i])]
\* The two lists written under each other's key.
Stringify_Swapped(d) ==
    [text |-> [schema |-> [standard |-> StringifyList(d.schema.custom),
                           custom |-> StringifyList(d.schema.standard)],
               timestamp |-> d.timestamp]]

\* JSON.stringify(cacheData, null, 2): the text of the document.
Stringify(d) ==
    [text |-> [schema |-> [standard |-> StringifyList(d.schema.standard),
                           custom |-> StringifyList(d.schema.custom)],
               timestamp |-> d.timestamp]]
\* JSON.parse of the file's content; it throws on a text cut short.
Parses(f) == IsDocument(f) /\ "text" \in DOMAIN f
Parse(f) == f.text

NoEntry == [none |-> TRUE]
EmptyMap == [n \in Names |-> NoEntry]

(* What a handler hands back. *)
PENDING == [pending |-> TRUE]
OK == [ok |-> TRUE]
THROWN == [thrown |-> TRUE]
\* op: the code that ran; arg: the object name or call kind it concerns;
\* ret: the value handed to the caller, PENDING while the handler is suspended.
Event(op, arg, ret) == [op |-> op, arg |-> arg, ret |-> ret]

(* --------------------------- the query gateway ------------------------- *)
\* A JavaScript string is [plain |-> s], or [json |-> v] when it is the JSON
\* text of the value v.  A line of stdout is such a string, or blank.
BlankLine == [blank |-> TRUE]
DiagLine == [plain |-> "Connecting to Salesforce"]
JsonLine(v) == [json |-> v]
EmptyText == [plain |-> ""]
IsJson(str) == "json" \in DOMAIN str
TruthyText(str) == str # UNDEFINED /\ str # EmptyText

\* JSON-RPC responses of the child: a tool result whose text is JSON, whose
\* text is a plain message, whose text is empty, or which has no content; a
\* bare result; and an error without result.
ToolResult(text) == [jsonrpc |-> "2.0", result |-> [content |-> << [type |-> "text", text |-> text] >>]]
Responses ==
    { ToolResult(JsonLine(PayloadA)),
      ToolResult([plain |-> "INVALID_FIELD: No such column"]),
      ToolResult(EmptyText),
      [jsonrpc |-> "2.0", result |-> [content |-> << >>]],
      [jsonrpc |-> "2.0", result |-> PayloadA],
      [jsonrpc |-> "2.0", error |-> [message |-> "Method not found"]] }
StdoutLines == { BlankLine, DiagLine } \cup { JsonLine(r) : r \in Responses }
StderrChunks == { "auth expired" }
ExitCodes == { 0, 2 }

\* lines = output.trim().split('\n').filter(l => l.trim())
IsNonBlank(l) == l # BlankLine
NonBlankLines(output) == SelectSeq(output, IsNonBlank)

\* What a close handler settles with.
Resolve(data) == [kind |-> "resolve", data |-> data]
\* new Error(text), with the raw output the message quotes.
Reject(text, raw) == [kind |-> "reject", text |-> text, raw |-> raw]

\* lastLine.result?.content?.[0]?.text
NestedText(r) ==
    IF "result" \in DOMAIN r /\ "content" \in DOMAIN r.result
       /\ Len(r.result.content) >= 1 /\ "text" \in DOMAIN r.result.content[1]
    THEN r.result.content[1].text
    ELSE UNDEFINED

\* The try block of part_000's 'close' listener: the one resolve or reject it
\* ends in.
parseOutput(output) ==
    LET lines == NonBlankLines(output) IN
    IF lines = << >> \/ ~IsJson(lines[Len(lines)])
    THEN Reject(<< "Parse Error" >>, output)
    ELSE LET lastLine == lines[Len(lines)].json IN
         IF TruthyText(NestedText(lastLine))
         THEN IF IsJson(NestedText(lastLine))
              THEN Resolve(NestedText(lastLine).json)
              ELSE Reject(<< "Parse Error" >>, output)
         ELSE Resolve(IF "result" \in DOMAIN lastLine THEN lastLine.result
                      ELSE lastLine)

\* The listener with the return before reject left out: on a non-zero code it
\* rejects and then runs the try block as well.
closeListener_NoReturn(code, output, errorOutput) ==
    IF code # 0 THEN << Reject(errorOutput, << >>), parseOutput(output) >>
    ELSE << parseOutput(output) >>

\* part_000's 'close' listener: the calls of resolve and reject it makes, in
\* order.
closeListener(code, output, errorOutput) ==
    IF code # 0 THEN << Reject(errorOutput, << >>) >>
    ELSE << parseOutput(output) >>

\* part_000's executeMCPQuery: what its promise is settled with, the first
\* call of resolve or reject.
executeMCPQuery(code, output, errorOutput) ==
    Head(closeListener(code, output, errorOutput))

AllJson(lines) == \A i \in 1..Len(lines) : IsJson(lines[i])

\* The try block of the 'close' listener of
\* packages/mcp-provider-api/http-server.js: every line parsed, the last
\* response unwrapped once.
parseOutputApi(output) ==
    LET lines == NonBlankLines(output) IN
    IF ~AllJson(lines) \/ lines = << >>
    THEN Reject(<< "SyntaxError" >>, << >>)
    ELSE LET result == lines[Len(lines)].json IN
         Resolve(IF "result" \in DOMAIN result THEN result.result ELSE result)

\* That listener: the calls of resolve and reject it makes, in order.  On a
\* non-zero code it rejects without returning and runs the try block too.
closeListenerApi(code, output) ==
    IF code # 0
    THEN << Reject(<< "MCP process failed" >>, << >>), parseOutputApi(output) >>
    ELSE << parseOutputApi(output) >>

\* A promise whose last call of resolve or reject decides.
PromiseOutcome_LastWins(settles) == settles[Len(settles)]

\* A promise is settled by the first call of resolve or reject; later calls
\* have no effect.
PromiseOutcome(settles) == Head(settles)

\* The executeMCPQuery of packages/mcp-provider-api/http-server.js: what its
\* promise settles with.  It has no stderr listener.
executeMCPQueryApi(code, output) ==
    PromiseOutcome(closeListenerApi(code, output))

\* POST /mcp's 'close' listener: the status and body it answers with.
Answer(status, body) == [status |-> status, body |-> body]
postMcp(code, output, errorOutput) ==
    IF code # 0
    THEN Answer(500, [error |-> "MCP process failed", details |-> errorOutput])
    ELSE LET lines == NonBlankLines(output) IN
         IF ~AllJson(lines)
         THEN Answer(500, [error |-> "Failed to parse MCP response", raw |-> output])
         ELSE IF lines = << >> THEN Answer(200, [responses |-> << >>])
         ELSE Answer(200, lines[Len(lines)].json)

\* The child: not spawned, running with what it has written so far, or
\* closed with what each 'close' listener made of it.
NoChild == [pc |-> "none"]
\* JSON.stringify(request) + '\n'
RequestLine == [json |-> [jsonrpc |-> "2.0", method |-> "tools/call"], newline |-> TRUE]
\* `spawned` counts the processes of the call, `stdin` is what was written to
\* the child, `settles` the calls of resolve and reject made so far.
Child(output, errorOutput) ==
    [pc |-> "running", output |-> output, errorOutput |-> errorOutput,
     spawned |-> 1, stdin |-> << RequestLine >>, stdinEnded |-> TRUE,
     settles |-> << >>]
Closed(code, output, errorOutput) ==
    [pc |-> "closed", code |-> code, output |-> output, errorOutput |-> errorOutput,
     spawned |-> 1, stdin |-> << RequestLine >>, stdinEnded |-> TRUE,
     settles |-> closeListener(code, output, errorOutput),
     query |-> executeMCPQuery(code, output, errorOutput),
     queryApi |-> executeMCPQueryApi(code, output),
     settlesApi |-> closeListenerApi(code, output),
     http |-> postMcp(code, output, errorOutput)]

(* ------------------------ the MCP runtime child ------------------------ *)
\* src/mcp/packages/mcp-provider-api/http-server.js keeps one long-lived
\* child, restarted when it exits.  Time is counted in seconds.
MCP_MAX_RESTARTS == 3
MaxUptime == 12

\* Before startMcpProcess is first called: mcpChild and mcpRestartAttempts as
\* declared, no setTimeout pending (timers holds the instants they are due),
\* no child alive, none started yet.
NoRuntime ==
    [mcpChild |-> "null", mcpRestartAttempts |-> 0, timers |-> {}, alive |-> 0,
     starts |-> 0, clock |-> 0, called |-> FALSE]

\* setTimeout(startMcpProcess, 2000 * mcpRestartAttempts)
RestartDelay(attempts) == 2 * attempts

\* startMcpProcess: spawn, and the listeners are attached.
startMcpProcess(m) ==
    [m EXCEPT !.mcpChild = "child", !.alive = @ + 1, !.starts = @ + 1]

\* An 'exit' listener that schedules a restart whatever the count.
onExit_NoLimit(m) ==
    [m EXCEPT !.mcpChild = "null",
              !.mcpRestartAttempts = @ + 1,
              !.alive = @ - 1,
              !.timers = @ \cup { m.clock + RestartDelay(m.mcpRestartAttempts + 1) }]

\* The 'exit' listener: mcpChild = null, the count goes up, and a restart is
\* scheduled while the count is at most MCP_MAX_RESTARTS.
onExit(m) ==
    [m EXCEPT !.mcpChild = "null",
              !.mcpRestartAttempts = @ + 1,
              !.alive = @ - 1,
              !.timers = IF m.mcpRestartAttempts + 1 <= MCP_MAX_RESTARTS
                         THEN @ \cup { m.clock + RestartDelay(m.mcpRestartAttempts + 1) }
                         ELSE @]

(* ---------------------------- the SSE host ----------------------------- *)
\* src/unnamed/part_001 keeps a Map from session id to transport.  A new
\* SSEServerTransport draws a session id no other transport has: ids are
\* handed out in order.  0 stands for an id no transport ever had.
MaxSessions == 3
SessionIds == 1..MaxSessions
NoTransport == 0

\* After `const transports = new Map()`: the keys of the map, the connections
\* that are open, those that have closed, the next id to be drawn, and what
\* POST /messages last did.
NoSessions ==
    [transports |-> {}, open |-> {}, closed |-> {}, nextId |-> 1,
     last |-> [op |-> "none", sessionId |-> NoTransport, status |-> 0, to |-> NoTransport]]

\* A 'close' listener that leaves the map alone.
onSseClose_NoDelete(keys, id) == keys

\* res.on("close", () => transports.delete(transport.sessionId))
onSseClose(keys, id) == keys \ {id}

(* ------------------------------ state ---------------------------------- *)
VARIABLES
    schemaCache,        \* part_000:22
    schemaCacheTime,    \* part_000:23
    objectFieldsCache,  \* part_000:24
    isRefreshing,       \* part_000:25
    file,               \* contents of CACHE_FILE_PATH
    now,                \* Date.now()
    nextSweep,          \* when the setInterval callback is next due
    started,            \* the top-level startup code has run
    crashed,            \* the process died of an uncaught exception
    calls,              \* suspended invocations: 0 is refreshSchemaInBackground
    ev,                 \* the last thing a handler did, with what it handed back
    fetchedOnce,        \* history: an org-schema fetch has succeeded
    cleared,            \* history: /cache/clear answered, the file gone, no fetch began since
    maxSchemaTime,      \* history: largest schemaCacheTime held so far
    maxObjectTime,      \* history: largest timestamp held per object entry
    bootRefused,        \* history: the last startup met a file that is not to be loaded
    origin,             \* history: where the value of schemaCache came from
    saved,              \* history: the document of the last write that completed
    lastBg,             \* history: the snapshot of the last successful background refresh
    owed,               \* history: per suspended getOrgSchema call, lastBg when it began
    gw,                 \* one child process of the gateway, and what its close handlers did
    sentIds,            \* history: the request ids executeMCPQuery has sent
    earlier,            \* history: per org-schema fetch in flight, those that began before it
    newerDone,          \* history: per fetch in flight, what a fetch begun after it stored
    mcp,                \* the MCP runtime child: mcpChild, mcpRestartAttempts, its timers
    sse                 \* the SSE host: the transports map, the connections, the last answer

vars == << schemaCache, schemaCacheTime, objectFieldsCache, isRefreshing, file, now,
           nextSweep, started, crashed, calls, ev, fetchedOnce, cleared,
           maxSchemaTime, maxObjectTime, bootRefused, origin, saved, lastBg, owed, gw,
           sentIds, earlier, newerDone, mcp, sse >>

Slots == 0..MaxCalls
HandlerSlots == 1..MaxCalls

\* A suspended invocation: what it is, the await it is at, the object name it
\* was called with, whether an HTTP handler awaits it, the document it is
\* writing, whether its caller emptied a cache just before starting it, and
\* the number of children it has spawned: executeMCPQuery spawns one.
Idle == [kind |-> "free", pc |-> "idle", name |-> "", awaited |-> FALSE,
         doc |-> NULL, evicted |-> FALSE, spawned |-> 0]
Call(kind, pc, name, awaited, evicted) ==
    [kind |-> kind, pc |-> pc, name |-> name, awaited |-> awaited,
     doc |-> NULL, evicted |-> evicted,
     spawned |-> IF pc = "query" THEN 1 ELSE 0]

FreeSlots == { s \in HandlerSlots : calls[s].kind = "free" }
NewSlot == CHOOSE s \in FreeSlots : \A s2 \in FreeSlots : s <= s2

\* Gateway calls in flight, and those among them that fetch the org schema.
InQuery(cs) == { s \in Slots : cs[s].pc = "query" }
OrgFetches(cs) == { s \in InQuery(cs) : cs[s].kind \in {"bg", "cold"} }

Max(a, b) == IF a >= b THEN a ELSE b

(* The snapshot files a previous run of the server can have left behind. *)
InitFiles ==
    { Absent, Partial,
      Stringify(CacheData(BuildObjects(PayloadA), StartTime)),
      Stringify(CacheData(BuildObjects(PayloadA), StartTime - SCHEMA_CACHE_TTL)) }

Init ==
    /\ schemaCache = NULL
    /\ schemaCacheTime = NoTime
    /\ objectFieldsCache = EmptyMap
    /\ isRefreshing = FALSE
    /\ file \in InitFiles
    /\ now = StartTime
    /\ nextSweep = StartTime + SWEEP_INTERVAL
    /\ started = FALSE
    /\ crashed = FALSE
    /\ calls = [s \in Slots |-> Idle]
    /\ ev = Event("none", "", NULL)
    /\ fetchedOnce = FALSE
    /\ cleared = FALSE
    /\ maxSchemaTime = NoTime
    /\ maxObjectTime = [n \in Names |-> NoTime]
    /\ bootRefused = FALSE
    /\ origin = "none"
    /\ saved = NULL
    /\ lastBg = NULL
    /\ owed = [s \in HandlerSlots |-> NULL]
    /\ gw = NoChild
    /\ sentIds = {}
    /\ earlier = [s \in Slots |-> {}]
    /\ newerDone = [s \in Slots |-> NULL]
    /\ mcp = NoRuntime
    /\ sse = NoSessions

(* ------------------------- code conditions ----------------------------- *)
\* The comparison of the age with the TTL turned round.
IsFresh_Inverted(cache, time, t) ==
    Truthy(cache) /\ TruthyTime(time) /\ t - time > SCHEMA_CACHE_TTL

\* getOrgSchema's first test: a value, a timestamp, and age < SCHEMA_CACHE_TTL.
IsFresh(cache, time, t) ==
    Truthy(cache) /\ TruthyTime(time) /\ t - time < SCHEMA_CACHE_TTL

\* getOrgSchema's second test: old data and no refresh running.
ServeStale(cache, refreshing) == Truthy(cache) /\ ~refreshing

\* getObjectSchema's test: an entry, and age < OBJECT_CACHE_TTL.
ObjIsFresh(entry, t) ==
    entry # NoEntry /\ t - entry.timestamp < OBJECT_CACHE_TTL

\* The sweep's test: a value, and age >= SCHEMA_CACHE_TTL.
SweepDue(cache, time, t) ==
    Truthy(cache) /\ t - (IF time = NoTime THEN 0 ELSE time) >= SCHEMA_CACHE_TTL

\* The timestamp reset to the epoch instead of null.
ClearedTime_Epoch == NoTime + 1

\* What /cache/refresh and /cache/clear assign to schemaCacheTime.
ClearedTime == NoTime

\* The catch block returning the empty partition instead of the fallback list.
ColdFailureResult_Empty == [standard |-> << >>, custom |-> << >>]

\* What getOrgSchema's catch block returns.
ColdFailureResult == Fallback

(* ----------------------- refreshSchemaInBackground --------------------- *)
\* The isRefreshing test turned round: the function returns unless a refresh
\* is already running.
refreshSchemaInBackground_Inverted(awaited, evicted) ==
    IF ~isRefreshing
    THEN UNCHANGED << isRefreshing, calls >>
    ELSE /\ isRefreshing' = TRUE
         /\ calls' = [calls EXCEPT ![0] = Call("bg", "query", "", awaited, evicted)]

\* Without the isRefreshing test: every call enters.
refreshSchemaInBackground_NoGuard(awaited, evicted) ==
    /\ isRefreshing' = TRUE
    /\ calls' = [calls EXCEPT ![0] = Call("bg", "query", "", awaited, evicted)]

\* Its synchronous head: the isRefreshing test, the flag, and the spawn of the
\* query.  `awaited` is TRUE for the call /cache/refresh awaits.
refreshSchemaInBackground(awaited, evicted) ==
    IF isRefreshing
    THEN UNCHANGED << isRefreshing, calls >>
    ELSE /\ isRefreshing' = TRUE
         /\ calls' = [calls EXCEPT ![0] = Call("bg", "query", "", awaited, evicted)]

\* The tail shared by refreshSchemaInBackground and getOrgSchema once
\* saveCacheToDisk has settled: the finally block, or the return of objects.
Settle(c) ==
    /\ calls' = [s \in Slots |-> IF s = c THEN Idle ELSE calls[s]]
    /\ IF c = 0
       THEN /\ isRefreshing' = FALSE
            /\ ev' = Event("refresh:done", "",
                           IF calls[0].awaited THEN OK ELSE NULL)
       ELSE /\ isRefreshing' = isRefreshing
            /\ ev' = Event("getOrgSchema:ret", "", calls[c].doc.schema)

(* ------------------------------ startup -------------------------------- *)
\* The load without the test of the timestamp's age.
loadCacheFromDisk_NoExpiry(f, t) ==
    IF ENABLE_PERSISTENT_CACHE /\ Parses(f) /\ TruthyTime(Parse(f).timestamp)
    THEN << (IF "schema" \in DOMAIN Parse(f) THEN Parse(f).schema ELSE UNDEFINED),
            Parse(f).timestamp >>
    ELSE << NULL, NoTime >>

\* loadCacheFromDisk: the pair (schemaCache, schemaCacheTime) it leaves.
loadCacheFromDisk(f, t) ==
    IF ENABLE_PERSISTENT_CACHE /\ Parses(f)
       /\ TruthyTime(Parse(f).timestamp) /\ t - Parse(f).timestamp < SCHEMA_CACHE_TTL
    THEN << (IF "schema" \in DOMAIN Parse(f) THEN Parse(f).schema ELSE UNDEFINED),
            Parse(f).timestamp >>
    ELSE << NULL, NoTime >>

\* await loadCacheFromDisk(); if (!schemaCache) refreshSchemaInBackground();
Startup ==
    /\ ~started
    /\ started' = TRUE
    /\ schemaCache' = loadCacheFromDisk(file, now)[1]
    /\ schemaCacheTime' = loadCacheFromDisk(file, now)[2]
    /\ IF ~Truthy(schemaCache')
       THEN refreshSchemaInBackground(FALSE, FALSE)
       ELSE UNCHANGED << isRefreshing, calls >>
    /\ ev' = Event("startup", "", NULL)
    /\ UNCHANGED << objectFieldsCache, file, now, nextSweep, crashed >>

Running == started /\ ~crashed

(* --------------------------- getOrgSchema ------------------------------ *)
getOrgSchema ==
    /\ Running
    /\ IF IsFresh(schemaCache, schemaCacheTime, now)
       THEN /\ ev' = Event("getOrgSchema", "", schemaCache)
            /\ UNCHANGED << isRefreshing, calls >>
       ELSE IF ServeStale(schemaCache, isRefreshing)
       THEN /\ refreshSchemaInBackground(FALSE, FALSE)
            /\ ev' = Event("getOrgSchema", "", schemaCache)
       ELSE /\ FreeSlots # {}
            /\ calls' = [calls EXCEPT ![NewSlot] = Call("cold", "query", "", TRUE, FALSE)]
            /\ ev' = Event("getOrgSchema", "", PENDING)
            /\ UNCHANGED isRefreshing
    /\ UNCHANGED << schemaCache, schemaCacheTime, objectFieldsCache, file, now,
                    nextSweep, started, crashed >>

(* ------------------ executeMCPQuery settles: org schema ---------------- *)
\* The query of refreshSchemaInBackground (c = 0) or of getOrgSchema's
\* synchronous path (c > 0) resolves with payload p: the cache is written and
\* saveCacheToDisk is entered.
OrgFetchResolves(c, p) ==
    /\ Running
    /\ c \in OrgFetches(calls)
    /\ schemaCache' = BuildObjects(p)
    /\ schemaCacheTime' = now
    /\ IF ENABLE_PERSISTENT_CACHE /\ Truthy(schemaCache')
       THEN /\ calls' = [calls EXCEPT ![c].pc = "save",
                                      ![c].doc = CacheData(schemaCache', schemaCacheTime')]
            /\ isRefreshing' = isRefreshing
            /\ ev' = Event(IF c = 0 THEN "refresh:ok" ELSE "getOrgSchema:ok", "", NULL)
       ELSE /\ calls' = [s \in Slots |-> IF s = c THEN Idle ELSE calls[s]]
            /\ isRefreshing' = (IF c = 0 THEN FALSE ELSE isRefreshing)
            /\ ev' = Event(IF c = 0 THEN "refresh:ok" ELSE "getOrgSchema:ok", "",
                           IF c = 0 THEN NULL ELSE schemaCache')
    /\ UNCHANGED << objectFieldsCache, file, now, nextSweep, started, crashed >>

\* The catch block without the finally: the flag stays as it is.
OrgFetchRejects_NoFinally(c) ==
    /\ Running
    /\ c \in OrgFetches(calls)
    /\ calls' = [s \in Slots |-> IF s = c THEN Idle ELSE calls[s]]
    /\ isRefreshing' = isRefreshing
    /\ ev' = IF c = 0
             THEN Event("refresh:caught", "", IF calls[0].awaited THEN OK ELSE NULL)
             ELSE Event("getOrgSchema:caught", "", ColdFailureResult)
    /\ UNCHANGED << schemaCache, schemaCacheTime, objectFieldsCache, file, now,
                    nextSweep, started, crashed >>

\* A catch block that calls executeMCPQuery again: the invocation spawns a
\* second child and waits for it.
OrgFetchRejects_Retry(c) ==
    /\ Running
    /\ c \in OrgFetches(calls)
    /\ calls' = [calls EXCEPT ![c].spawned = @ + 1]
    /\ ev' = Event(IF c = 0 THEN "refresh:caught" ELSE "getOrgSchema:caught", "", PENDING)
    /\ UNCHANGED << schemaCache, schemaCacheTime, objectFieldsCache, isRefreshing,
                    file, now, nextSweep, started, crashed >>

\* A catch block of getOrgSchema that stores the list it returns.
OrgFetchRejects_CachesFallback(c) ==
    /\ Running
    /\ c \in OrgFetches(calls)
    /\ calls' = [s \in Slots |-> IF s = c THEN Idle ELSE calls[s]]
    /\ IF c = 0
       THEN /\ isRefreshing' = FALSE
            /\ ev' = Event("refresh:caught", "", IF calls[0].awaited THEN OK ELSE NULL)
            /\ UNCHANGED << schemaCache, schemaCacheTime >>
       ELSE /\ isRefreshing' = isRefreshing
            /\ ev' = Event("getOrgSchema:caught", "", ColdFailureResult)
            /\ schemaCache' = ColdFailureResult
            /\ schemaCacheTime' = now
    /\ UNCHANGED << objectFieldsCache, file, now, nextSweep, started, crashed >>

\* The query rejects (non-zero exit, or output that does not parse).
OrgFetchRejects(c) ==
    /\ Running
    /\ c \in OrgFetches(calls)
    /\ calls' = [s \in Slots |-> IF s = c THEN Idle ELSE calls[s]]
    /\ IF c = 0
       THEN /\ isRefreshing' = FALSE
            /\ ev' = Event("refresh:caught", "",
                           IF calls[0].awaited THEN OK ELSE NULL)
       ELSE /\ isRefreshing' = isRefreshing
            /\ ev' = Event("getOrgSchema:caught", "", ColdFailureResult)
    /\ UNCHANGED << schemaCache, schemaCacheTime, objectFieldsCache, file, now,
                    nextSweep, started, crashed >>

(* ---------------------------- saveCacheToDisk -------------------------- *)
\* fs.writeFile completes: the text of the document built when saveCacheToDisk
\* was called is the content of the file.
WriteCompletes(c) ==
    /\ Running
    /\ calls[c].pc = "save"
    /\ file' = Stringify(calls[c].doc)
    /\ Settle(c)
    /\ UNCHANGED << schemaCache, schemaCacheTime, objectFieldsCache,
                    now, nextSweep, started, crashed >>

\* Another saveCacheToDisk is writing the same path: fs.writeFile opens with
\* truncation and writes in chunks with nothing ordering the two writers, so
\* the file can end as chunks of both, a text neither of them wrote.
InterleavedText(d1, d2) ==
    [text |-> [schema |-> Stringify(d1).text.schema, timestamp |-> d2.timestamp],
     torn |-> TRUE]
OverlappingWrite(c) ==
    /\ Running
    /\ calls[c].pc = "save"
    /\ \E c2 \in Slots \ {c} :
          /\ calls[c2].pc = "save"
          /\ calls[c2].doc # calls[c].doc
          /\ file' \in { InterleavedText(calls[c].doc, calls[c2].doc),
                         InterleavedText(calls[c2].doc, calls[c].doc), Partial }
    /\ Settle(c)
    /\ UNCHANGED << schemaCache, schemaCacheTime, objectFieldsCache,
                    now, nextSweep, started, crashed >>

\* saveCacheToDisk without its try/catch: the error of fs.writeFile reaches
\* the caller's catch block.
WriteFails_Rethrows(c) ==
    /\ Running
    /\ calls[c].pc = "save"
    /\ calls' = [s \in Slots |-> IF s = c THEN Idle ELSE calls[s]]
    /\ IF c = 0
       THEN /\ isRefreshing' = FALSE
            /\ ev' = Event("refresh:caught", "", IF calls[0].awaited THEN OK ELSE NULL)
       ELSE /\ isRefreshing' = isRefreshing
            /\ ev' = Event("getOrgSchema:caught", "", ColdFailureResult)
    /\ UNCHANGED << schemaCache, schemaCacheTime, objectFieldsCache, file,
                    now, nextSweep, started, crashed >>

\* fs.writeFile fails: saveCacheToDisk logs the error and returns.
WriteFails(c) ==
    /\ Running
    /\ calls[c].pc = "save"
    /\ Settle(c)
    /\ UNCHANGED << schemaCache, schemaCacheTime, objectFieldsCache, file,
                    now, nextSweep, started, crashed >>

(* --------------------------- getObjectSchema --------------------------- *)
getObjectSchema(objectName) ==
    /\ Running
    /\ IF ObjIsFresh(objectFieldsCache[objectName], now)
       THEN /\ ev' = Event("getObjectSchema", objectName, objectFieldsCache[objectName].data)
            /\ UNCHANGED calls
       ELSE /\ FreeSlots # {}
            /\ calls' = [calls EXCEPT ![NewSlot] = Call("obj", "query", objectName, TRUE, FALSE)]
            /\ ev' = Event("getObjectSchema", objectName, PENDING)
    /\ UNCHANGED << schemaCache, schemaCacheTime, objectFieldsCache, isRefreshing,
                    file, now, nextSweep, started, crashed >>

\* The field query resolves: the entry is set and the schema returned.
ObjFetchResolves(c, p) ==
    /\ Running
    /\ c \in InQuery(calls) /\ calls[c].kind = "obj"
    /\ objectFieldsCache' =
         [objectFieldsCache EXCEPT ![calls[c].name] =
             [data |-> BuildObjectSchema(calls[c].name, p), timestamp |-> now]]
    /\ calls' = [calls EXCEPT ![c] = Idle]
    /\ ev' = Event("getObjectSchema:ret", calls[c].name, BuildObjectSchema(calls[c].name, p))
    /\ UNCHANGED << schemaCache, schemaCacheTime, isRefreshing, file, now,
                    nextSweep, started, crashed >>

\* A catch block that answers with an empty schema and caches it.
ObjFetchRejects_CachesEmpty(c) ==
    /\ Running
    /\ c \in InQuery(calls) /\ calls[c].kind = "obj"
    /\ objectFieldsCache' =
         [objectFieldsCache EXCEPT ![calls[c].name] =
             [data |-> BuildObjectSchema(calls[c].name, [error |-> "INVALID_TYPE"]),
              timestamp |-> now]]
    /\ calls' = [calls EXCEPT ![c] = Idle]
    /\ ev' = Event("getObjectSchema:caught", calls[c].name,
                   BuildObjectSchema(calls[c].name, [error |-> "INVALID_TYPE"]))
    /\ UNCHANGED << schemaCache, schemaCacheTime, isRefreshing, file, now,
                    nextSweep, started, crashed >>

\* The field query rejects: getObjectSchema throws to its caller.
ObjFetchRejects(c) ==
    /\ Running
    /\ c \in InQuery(calls) /\ calls[c].kind = "obj"
    /\ calls' = [calls EXCEPT ![c] = Idle]
    /\ ev' = Event("getObjectSchema:caught", calls[c].name, THROWN)
    /\ UNCHANGED << schemaCache, schemaCacheTime, objectFieldsCache, isRefreshing,
                    file, now, nextSweep, started, crashed >>

(* ------------------------- POST /cache/refresh ------------------------- *)
\* Both caches are emptied, then refreshSchemaInBackground is awaited: with a
\* refresh already running it returns at once and the handler answers.
cacheRefresh ==
    /\ Running
    /\ schemaCache' = NULL
    /\ schemaCacheTime' = ClearedTime
    /\ objectFieldsCache' = EmptyMap
    /\ refreshSchemaInBackground(TRUE,
           schemaCache # NULL \/ objectFieldsCache # EmptyMap)
    /\ ev' = Event("cacheRefresh", "", IF isRefreshing THEN OK ELSE PENDING)
    /\ UNCHANGED << file, now, nextSweep, started, crashed >>

(* -------------------------- POST /cache/clear -------------------------- *)
cacheClear ==
    /\ Running
    /\ FreeSlots # {}
    /\ schemaCache' = NULL
    /\ schemaCacheTime' = ClearedTime
    /\ objectFieldsCache' = EmptyMap
    /\ IF ENABLE_PERSISTENT_CACHE
       THEN /\ calls' = [calls EXCEPT ![NewSlot] = Call("clear", "unlink", "", TRUE, FALSE)]
            /\ ev' = Event("cacheClear", "", PENDING)
       ELSE /\ calls' = calls
            /\ ev' = Event("cacheClear:ret", "", OK)
    /\ UNCHANGED << isRefreshing, file, now, nextSweep, started, crashed >>

\* fs.unlink removes the file (or finds none) and the handler answers.
UnlinkCompletes(c) ==
    /\ Running
    /\ calls[c].pc = "unlink"
    /\ file' = Absent
    /\ calls' = [calls EXCEPT ![c] = Idle]
    /\ ev' = Event("cacheClear:ret", "", OK)
    /\ UNCHANGED << schemaCache, schemaCacheTime, objectFieldsCache, isRefreshing,
                    now, nextSweep, started, crashed >>

\* fs.unlink fails on an existing file; the error is swallowed, the handler answers.
UnlinkFails(c) ==
    /\ Running
    /\ calls[c].pc = "unlink"
    /\ file # Absent
    /\ calls' = [calls EXCEPT ![c] = Idle]
    /\ ev' = Event("cacheClear:ret", "", OK)
    /\ UNCHANGED << schemaCache, schemaCacheTime, objectFieldsCache, isRefreshing,
                    file, now, nextSweep, started, crashed >>

(* ------------------------------ the sweep ------------------------------ *)
Sweep ==
    /\ Running
    /\ now = nextSweep
    /\ nextSweep' = nextSweep + SWEEP_INTERVAL
    /\ IF SweepDue(schemaCache, schemaCacheTime, now)
       THEN refreshSchemaInBackground(FALSE, FALSE)
       ELSE UNCHANGED << isRefreshing, calls >>
    /\ ev' = Event("sweep", "", NULL)
    /\ UNCHANGED << schemaCache, schemaCacheTime, objectFieldsCache, file, now,
                    started, crashed >>

\* The clock advances; a due sweep runs before it passes.
Tick(horizon) ==
    /\ Running
    /\ now < StartTime + horizon
    /\ now < nextSweep
    /\ now' = now + 1
    /\ ev' = Event("tick", "", NULL)
    /\ UNCHANGED << schemaCache, schemaCacheTime, objectFieldsCache, isRefreshing,
                    file, nextSweep, started, crashed, calls >>

(* -------------------------- executeMCPQuery ---------------------------- *)
\* The child cannot be spawned: it emits 'error', for which executeMCPQuery
\* registers no listener, so the event is thrown as an uncaught exception.
SpawnFails(c) ==
    /\ Running
    /\ c \in InQuery(calls)
    /\ crashed' = TRUE
    /\ ev' = Event("uncaughtException", calls[c].kind, NULL)
    /\ UNCHANGED << schemaCache, schemaCacheTime, objectFieldsCache, isRefreshing,
                    file, now, nextSweep, started, calls >>

(* ---------------------------- direct queries --------------------------- *)
\* POST /mcp, step 2 of /smart-query and fetchSalesforceContext: the handler
\* spawns a child for the caller's query and waits for it to close.
directQuery ==
    /\ Running
    /\ FreeSlots # {}
    /\ calls' = [calls EXCEPT ![NewSlot] = Call("direct", "query", "", TRUE, FALSE)]
    /\ ev' = Event("directQuery", "", PENDING)
    /\ UNCHANGED << schemaCache, schemaCacheTime, objectFieldsCache, isRefreshing,
                    file, now, nextSweep, started, crashed >>

\* The answer of a direct query stored as the org schema.
DirectQueryResolves_Caching(c, p) ==
    /\ Running
    /\ c \in InQuery(calls) /\ calls[c].kind = "direct"
    /\ calls' = [calls EXCEPT ![c] = Idle]
    /\ ev' = Event("directQuery:ret", "", p)
    /\ schemaCache' = BuildObjects(p)
    /\ schemaCacheTime' = now
    /\ UNCHANGED << objectFieldsCache, isRefreshing,
                    file, now, nextSweep, started, crashed >>

\* The child closes with code 0 and a last line that parses: the payload is
\* handed to the caller.
DirectQueryResolves(c, p) ==
    /\ Running
    /\ c \in InQuery(calls) /\ calls[c].kind = "direct"
    /\ calls' = [calls EXCEPT ![c] = Idle]
    /\ ev' = Event("directQuery:ret", "", p)
    /\ UNCHANGED << schemaCache, schemaCacheTime, objectFieldsCache, isRefreshing,
                    file, now, nextSweep, started, crashed >>

\* The child closes with a non-zero code or output that does not parse: the
\* caller answers 500 (or, in fetchSalesforceContext, returns null).
DirectQueryRejects(c) ==
    /\ Running
    /\ c \in InQuery(calls) /\ calls[c].kind = "direct"
    /\ calls' = [calls EXCEPT ![c] = Idle]
    /\ ev' = Event("directQuery:caught", "", THROWN)
    /\ UNCHANGED << schemaCache, schemaCacheTime, objectFieldsCache, isRefreshing,
                    file, now, nextSweep, started, crashed >>

(* ----------------------- the child and its listeners ------------------- *)
\* spawn('node', [...]) and the registration of the listeners.
Spawn ==
    /\ gw.pc # "running"
    /\ gw' = Child(<< >>, << >>)

\* stdout 'data': output += data.toString()
StdoutData(line) ==
    /\ gw.pc = "running"
    /\ Len(gw.output) < MaxLines
    /\ gw' = [gw EXCEPT !.output = Append(@, line)]

\* stderr 'data': errorOutput += data.toString()
StderrData(chunk) ==
    /\ gw.pc = "running"
    /\ Len(gw.errorOutput) < MaxLines
    /\ gw' = [gw EXCEPT !.errorOutput = Append(@, chunk)]

\* 'close' with the exit code.
Close(code) ==
    /\ gw.pc = "running"
    /\ gw' = Closed(code, gw.output, gw.errorOutput)

(* ------------------------------ restart ------------------------------- *)
\* The process ends and is started again: the module-level state is as
\* declared (part_000:22-25), every suspended call is gone, and a write that
\* was under way may have left the file cut short.
Restart ==
    /\ started
    /\ schemaCache' = NULL
    /\ schemaCacheTime' = NoTime
    /\ objectFieldsCache' = EmptyMap
    /\ isRefreshing' = FALSE
    /\ calls' = [s \in Slots |-> Idle]
    /\ started' = FALSE
    /\ crashed' = FALSE
    /\ nextSweep' = now + SWEEP_INTERVAL
    /\ file' \in {file} \cup (IF \E c \in Slots : calls[c].pc = "save"
                               THEN {Partial} ELSE {})
    /\ ev' = Event("restart", "", NULL)
    /\ UNCHANGED now

(* ------------------------- history variables --------------------------- *)
\* Written by the specifications, from the step's effect on the program state.
\* The largest timestamps held so far.
TrackTimes ==
    /\ maxSchemaTime' = Max(maxSchemaTime, schemaCacheTime')
    /\ maxObjectTime' = [n \in Names |->
           IF objectFieldsCache'[n] = NoEntry THEN maxObjectTime[n]
           ELSE Max(maxObjectTime[n], objectFieldsCache'[n].timestamp)]
\* An org-schema fetch has succeeded.
TrackFetched ==
    fetchedOnce' = (fetchedOnce \/ ev'.op \in {"refresh:ok", "getOrgSchema:ok"})
\* /cache/clear has answered with the file gone, and no gateway call was
\* started since.
TrackCleared ==
    cleared' = IF ev'.op = "cacheClear:ret" THEN file' = Absent
               ELSE IF InQuery(calls') \ InQuery(calls) # {} THEN FALSE
               ELSE cleared

\* What the specification of loading says of a file: it cannot be read, it
\* does not parse, or its timestamp is at least SCHEMA_CACHE_TTL old.
Refused(f, t) ==
    \/ f = Absent
    \/ f = Partial
    \/ Parses(f) /\ t - Parse(f).timestamp >= SCHEMA_CACHE_TTL
\* Where the cached value came from, and what the last startup met.
TrackBoot ==
    /\ bootRefused' = IF ev'.op = "startup" THEN Refused(file, now)
                      ELSE IF ev'.op = "restart" THEN FALSE ELSE bootRefused
    /\ origin' = IF ev'.op = "startup"
                 THEN (IF Truthy(schemaCache') THEN "file" ELSE "none")
                 ELSE IF ev'.op \in {"refresh:ok", "getOrgSchema:ok"} THEN "fetch"
                 ELSE IF ev'.op = "restart" THEN "none" ELSE origin

\* The snapshot of the last successful background refresh, until the next
\* successful fetch or a clear; and, for each suspended getOrgSchema call, that
\* snapshot as it was when the call began, until the same events.
TrackServed ==
    /\ lastBg' = IF ev'.op = "refresh:ok" THEN schemaCache'
                 ELSE IF ev'.op \in {"getOrgSchema:ok", "cacheClear", "cacheClear:ret",
                                     "cacheRefresh", "restart"} THEN NULL
                 ELSE lastBg
    /\ owed' = [c \in HandlerSlots |->
                  IF lastBg' # lastBg \/ calls'[c].kind # "cold" THEN NULL
                  ELSE IF calls[c].kind = "free" THEN lastBg
                  ELSE owed[c]]

\* The id executeMCPQuery puts in its request: Date.now() when it builds it.
RequestId == now

\* In this step the invocation in slot c calls executeMCPQuery, and an
\* org-schema fetch in slot c begins, ends, or ends by storing its result.
StartsQuery(c) == calls'[c].pc = "query" /\ calls[c].pc # "query"
StartsFetch(c) == StartsQuery(c) /\ calls'[c].kind \in {"bg", "cold"}
EndsFetch(c) == c \in OrgFetches(calls) /\ calls'[c].pc # "query"
StoresResult(c) == EndsFetch(c) /\ ev'.op \in {"refresh:ok", "getOrgSchema:ok"}

\* The ids sent so far; for each fetch in flight the fetches that were in flight
\* when it began; and for each fetch in flight the snapshot that a fetch which
\* began after it has stored in the meantime.
TrackSent ==
    /\ sentIds' = IF \E c \in Slots : StartsQuery(c)
                  THEN sentIds \cup {RequestId} ELSE sentIds
    /\ earlier' = [c \in Slots |->
                     IF StartsFetch(c) THEN OrgFetches(calls)
                     ELSE IF c \in OrgFetches(calls')
                          THEN earlier[c] \cap OrgFetches(calls')
                          ELSE {}]
    /\ newerDone' = [c \in Slots |->
                       IF StartsFetch(c) \/ c \notin OrgFetches(calls') THEN NULL
                       ELSE IF \E d \in Slots : StoresResult(d) /\ c \in earlier[d]
                            THEN schemaCache'
                            ELSE newerDone[c]]

(* --------------------------- specifications --------------------------- *)
\* Every handler, with gateway calls that resolve or reject and file
\* operations that succeed, for requests that name one object, over a short
\* run of the clock.
KeepBoot == UNCHANGED << bootRefused, origin, saved >>
KeepServed == UNCHANGED << lastBg, owed >>
KeepSent == UNCHANGED << sentIds, earlier, newerDone >>
KeepGateway == UNCHANGED << gw, mcp, sse >>
History ==
    /\ TrackTimes /\ UNCHANGED << fetchedOnce, cleared >>
    /\ KeepBoot /\ KeepServed /\ KeepGateway /\ KeepSent
Next ==
    \/ Startup /\ History
    \/ getOrgSchema /\ History
    \/ \E c \in Slots : OrgFetchResolves(c, PayloadA) /\ History
    \/ \E c \in Slots : OrgFetchRejects(c) /\ History
    \/ \E c \in Slots : WriteCompletes(c) /\ History
    \/ getObjectSchema("Account") /\ History
    \/ \E c \in Slots : ObjFetchResolves(c, FieldPayload) /\ History
    \/ \E c \in Slots : ObjFetchRejects(c) /\ History
    \/ cacheRefresh /\ History
    \/ cacheClear /\ History
    \/ \E c \in Slots : UnlinkCompletes(c) /\ History
    \/ Sweep /\ History
    \/ Tick(MaxTime) /\ History

Spec == Init /\ [][Next]_vars

\* Reads and the sweep over a long run of the clock, with every outcome of a
\* gateway call and of a snapshot write, and with no clear and no manual
\* refresh: the setting of the bounded-staleness property.
HistorySweep ==
    /\ TrackFetched /\ UNCHANGED << cleared, maxSchemaTime, maxObjectTime >>
    /\ KeepBoot /\ KeepServed /\ KeepGateway /\ KeepSent
NextSweep ==
    \/ Startup /\ HistorySweep
    \/ getOrgSchema /\ HistorySweep
    \/ \E c \in Slots, p \in OrgPayloads : OrgFetchResolves(c, p) /\ HistorySweep
    \/ \E c \in Slots : OrgFetchRejects(c) /\ HistorySweep
    \/ \E c \in Slots : WriteCompletes(c) /\ HistorySweep
    \/ \E c \in Slots : WriteFails(c) /\ HistorySweep
    \/ \E c \in Slots : SpawnFails(c) /\ HistorySweep
    \/ Sweep /\ HistorySweep
    \/ Tick(MaxSweepTime) /\ HistorySweep

SpecSweep == Init /\ [][NextSweep]_vars

\* The two administrative endpoints against reads of both caches, with every
\* outcome of a gateway call and of a file operation, at one instant.
HistoryAdmin ==
    /\ TrackCleared /\ UNCHANGED << fetchedOnce, maxSchemaTime, maxObjectTime >>
    /\ KeepBoot /\ KeepServed /\ KeepGateway /\ KeepSent
NextAdmin ==
    \/ Startup /\ HistoryAdmin
    \/ getOrgSchema /\ HistoryAdmin
    \/ \E c \in Slots, p \in OrgPayloads : OrgFetchResolves(c, p) /\ HistoryAdmin
    \/ \E c \in Slots : OrgFetchRejects(c) /\ HistoryAdmin
    \/ \E c \in Slots : WriteCompletes(c) /\ HistoryAdmin
    \/ \E c \in Slots : WriteFails(c) /\ HistoryAdmin
    \/ \E n \in Names : getObjectSchema(n) /\ HistoryAdmin
    \/ \E c \in Slots, p \in FieldPayloads : ObjFetchResolves(c, p) /\ HistoryAdmin
    \/ \E c \in Slots : ObjFetchRejects(c) /\ HistoryAdmin
    \/ cacheRefresh /\ HistoryAdmin
    \/ cacheClear /\ HistoryAdmin
    \/ \E c \in Slots : UnlinkCompletes(c) /\ HistoryAdmin
    \/ \E c \in Slots : UnlinkFails(c) /\ HistoryAdmin

SpecAdmin == Init /\ [][NextAdmin]_vars

\* Runs of the server one after another over the same snapshot file: startup,
\* reads, fetches and writes with every outcome, and the process restarting at
\* any moment.
HistoryRestart ==
    /\ TrackBoot /\ KeepServed /\ KeepGateway /\ KeepSent
    /\ UNCHANGED << fetchedOnce, cleared, maxSchemaTime, maxObjectTime >>
NextRestart ==
    \/ Startup /\ HistoryRestart /\ saved' = saved
    \/ getOrgSchema /\ HistoryRestart /\ saved' = saved
    \/ \E c \in Slots, p \in {PayloadA, PayloadNoLabel} :
          OrgFetchResolves(c, p) /\ HistoryRestart /\ saved' = saved
    \/ \E c \in Slots : OrgFetchRejects(c) /\ HistoryRestart /\ saved' = saved
    \/ \E c \in Slots : WriteCompletes(c) /\ HistoryRestart /\ saved' = calls[c].doc
    \/ \E c \in Slots : WriteFails(c) /\ HistoryRestart /\ saved' = saved
    \/ \E c \in Slots : OverlappingWrite(c) /\ HistoryRestart /\ saved' = NULL
    \/ Sweep /\ HistoryRestart /\ saved' = saved
    \/ Tick(MaxTime) /\ HistoryRestart /\ saved' = saved
    \/ Restart /\ HistoryRestart /\ saved' = (IF file' = file THEN saved ELSE NULL)

SpecRestart == Init /\ [][NextRestart]_vars

\* Reads of the org schema against the background refresh, with fetches that
\* resolve with either payload or reject, over a short run of the clock.
HistoryServe ==
    /\ TrackServed /\ TrackSent /\ KeepBoot /\ KeepGateway
    /\ UNCHANGED << fetchedOnce, cleared, maxSchemaTime, maxObjectTime >>
NextServe ==
    \/ Startup /\ HistoryServe
    \/ getOrgSchema /\ HistoryServe
    \/ \E c \in Slots, p \in {PayloadA, PayloadB} : OrgFetchResolves(c, p) /\ HistoryServe
    \/ \E c \in Slots : OrgFetchRejects(c) /\ HistoryServe
    \/ \E c \in Slots : WriteCompletes(c) /\ HistoryServe
    \/ Sweep /\ HistoryServe
    \/ Tick(MaxTime) /\ HistoryServe

SpecServe == Init /\ [][NextServe]_vars

\* Direct queries against reads that fill both caches and a refresh in
\* flight, at one instant.
HistoryDirect ==
    /\ KeepBoot /\ KeepServed /\ KeepGateway /\ KeepSent
    /\ UNCHANGED << fetchedOnce, cleared, maxSchemaTime, maxObjectTime >>
NextDirect ==
    \/ Startup /\ HistoryDirect
    \/ getOrgSchema /\ HistoryDirect
    \/ \E c \in Slots : OrgFetchResolves(c, PayloadA) /\ HistoryDirect
    \/ \E c \in Slots : OrgFetchRejects(c) /\ HistoryDirect
    \/ \E c \in Slots : WriteCompletes(c) /\ HistoryDirect
    \/ getObjectSchema("Account") /\ HistoryDirect
    \/ \E c \in Slots : ObjFetchResolves(c, FieldPayload) /\ HistoryDirect
    \/ directQuery /\ HistoryDirect
    \/ \E c \in Slots, p \in {PayloadA, PayloadError} :
          DirectQueryResolves(c, p) /\ HistoryDirect
    \/ \E c \in Slots : DirectQueryRejects(c) /\ HistoryDirect

SpecDirect == Init /\ [][NextDirect]_vars

\* Reads, the sweep and the background refresh where every child process
\* closes and every write of the snapshot settles.
HistoryLive ==
    /\ KeepBoot /\ KeepServed /\ KeepGateway /\ KeepSent
    /\ UNCHANGED << fetchedOnce, cleared, maxSchemaTime, maxObjectTime >>
ChildCloses(c) ==
    \/ OrgFetchResolves(c, PayloadA) /\ HistoryLive
    \/ OrgFetchRejects(c) /\ HistoryLive
WriteSettles(c) ==
    \/ WriteCompletes(c) /\ HistoryLive
    \/ WriteFails(c) /\ HistoryLive
NextLive ==
    \/ Startup /\ HistoryLive
    \/ getOrgSchema /\ HistoryLive
    \/ \E c \in Slots : OrgFetchResolves(c, PayloadA) /\ HistoryLive
    \/ \E c \in Slots : OrgFetchRejects(c) /\ HistoryLive
    \/ \E c \in Slots : WriteCompletes(c) /\ HistoryLive
    \/ \E c \in Slots : WriteFails(c) /\ HistoryLive
    \/ Sweep /\ HistoryLive
    \/ Tick(MaxTime) /\ HistoryLive

SpecLive ==
    /\ Init /\ [][NextLive]_vars
    /\ \A c \in Slots : WF_vars(ChildCloses(c)) /\ WF_vars(WriteSettles(c))

\* Every caller of executeMCPQuery (startup, reads of the org schema and of
\* one object, the sweep, the manual refresh, direct queries) with calls that
\* resolve, reject or cannot spawn their child.
HistorySpawn ==
    /\ KeepBoot /\ KeepServed /\ KeepGateway /\ KeepSent
    /\ UNCHANGED << fetchedOnce, cleared, maxSchemaTime, maxObjectTime >>
NextSpawn ==
    \/ Startup /\ HistorySpawn
    \/ getOrgSchema /\ HistorySpawn
    \/ \E c \in Slots : OrgFetchResolves(c, PayloadA) /\ HistorySpawn
    \/ \E c \in Slots : OrgFetchRejects(c) /\ HistorySpawn
    \/ \E c \in Slots : WriteCompletes(c) /\ HistorySpawn
    \/ getObjectSchema("Account") /\ HistorySpawn
    \/ \E c \in Slots : ObjFetchResolves(c, FieldPayload) /\ HistorySpawn
    \/ \E c \in Slots : ObjFetchRejects(c) /\ HistorySpawn
    \/ cacheRefresh /\ HistorySpawn
    \/ directQuery /\ HistorySpawn
    \/ \E c \in Slots : DirectQueryResolves(c, PayloadA) /\ HistorySpawn
    \/ \E c \in Slots : DirectQueryRejects(c) /\ HistorySpawn
    \/ \E c \in Slots : SpawnFails(c) /\ HistorySpawn
    \/ Sweep /\ HistorySpawn
    \/ Tick(MaxTime) /\ HistorySpawn

SpecSpawn == Init /\ [][NextSpawn]_vars

\* The top-level call of startMcpProcess.
RuntimeBoot ==
    /\ ~mcp.called
    /\ mcp' = startMcpProcess([mcp EXCEPT !.called = TRUE])

\* A child exits, after any time: its 'exit' listener runs.
McpExit ==
    /\ mcp.alive > 0
    /\ mcp' = onExit(mcp)

\* A child that could not be spawned emits 'error' and no 'exit': the listener
\* logs.
McpError ==
    /\ mcp.alive > 0
    /\ mcp' = [mcp EXCEPT !.alive = @ - 1]

\* A timer set by the 'exit' listener is due: startMcpProcess runs.
McpTimer ==
    \E d \in mcp.timers :
        /\ d <= mcp.clock
        /\ mcp' = startMcpProcess([mcp EXCEPT !.timers = @ \ {d}])

\* A second passes; a due timer fires first.
McpTick ==
    /\ mcp.clock < MaxUptime
    /\ \A d \in mcp.timers : mcp.clock < d
    /\ mcp' = [mcp EXCEPT !.clock = @ + 1]

\* The runtime child alone, exiting after any time or failing to spawn.
KeepCaches ==
    UNCHANGED << schemaCache, schemaCacheTime, objectFieldsCache, isRefreshing, file,
                 now, nextSweep, started, crashed, calls, ev, fetchedOnce, cleared,
                 maxSchemaTime, maxObjectTime, bootRefused, origin, saved, lastBg, owed,
                 sentIds, earlier, newerDone, gw, sse >>
NextRuntime ==
    \/ RuntimeBoot /\ KeepCaches
    \/ McpExit /\ KeepCaches
    \/ McpError /\ KeepCaches
    \/ McpTimer /\ KeepCaches
    \/ McpTick /\ KeepCaches

SpecRuntime == Init /\ [][NextRuntime]_vars

\* GET /sse: a transport is made, put in the map under its session id, and
\* the 'close' listener attached, before server.connect is awaited.
GetSse ==
    /\ sse.nextId \in SessionIds
    /\ sse' = [sse EXCEPT !.transports = @ \cup {sse.nextId},
                          !.open = @ \cup {sse.nextId},
                          !.nextId = @ + 1,
                          !.last = [op |-> "sse", sessionId |-> sse.nextId,
                                    status |-> 200, to |-> NoTransport]]

\* The connection of session id closes: the listener runs.
SseClose(id) ==
    /\ id \in sse.open
    /\ sse' = [sse EXCEPT !.transports = onSseClose(@, id),
                          !.open = @ \ {id},
                          !.closed = @ \cup {id},
                          !.last = [op |-> "close", sessionId |-> id,
                                    status |-> 0, to |-> NoTransport]]

\* POST /messages?sessionId=id: the transport found handles the request, or
\* the handler answers 400.
PostMessages(id) ==
    /\ sse' = [sse EXCEPT !.last =
                   IF id \in sse.transports
                   THEN [op |-> "messages", sessionId |-> id, status |-> 200, to |-> id]
                   ELSE [op |-> "messages", sessionId |-> id, status |-> 400,
                         to |-> NoTransport]]

\* The SSE host alone: connections opening and closing in any order, and
\* messages posted under any session id.
KeepAllButSse ==
    UNCHANGED << schemaCache, schemaCacheTime, objectFieldsCache, isRefreshing, file,
                 now, nextSweep, started, crashed, calls, ev, fetchedOnce, cleared,
                 maxSchemaTime, maxObjectTime, bootRefused, origin, saved, lastBg, owed,
                 sentIds, earlier, newerDone, gw, mcp >>
NextSse ==
    \/ GetSse /\ KeepAllButSse
    \/ \E id \in SessionIds : SseClose(id) /\ KeepAllButSse
    \/ \E id \in SessionIds \cup {NoTransport} : PostMessages(id) /\ KeepAllButSse

SpecSse == Init /\ [][NextSse]_vars

\* Texts that parse but that saveCacheToDisk never writes: a document with a
\* timestamp and no schema member, and one whose schema is null.
ForeignFiles ==
    { [text |-> [timestamp |-> StartTime]],
      [text |-> [schema |-> NULL, timestamp |-> StartTime]] }

\* Before the server starts, something else leaves such a text at
\* CACHE_FILE_PATH.
FileReplaced ==
    /\ ~started
    /\ file \notin ForeignFiles
    /\ file' \in ForeignFiles
    /\ ev' = Event("none", "", NULL)
    /\ UNCHANGED << schemaCache, schemaCacheTime, objectFieldsCache, isRefreshing,
                    now, nextSweep, started, crashed, calls >>

\* Startup over any parseable file, then reads and refreshes.
HistoryForeign ==
    /\ KeepBoot /\ KeepServed /\ KeepGateway /\ KeepSent
    /\ UNCHANGED << fetchedOnce, cleared, maxSchemaTime, maxObjectTime >>
NextForeign ==
    \/ FileReplaced /\ HistoryForeign
    \/ Startup /\ HistoryForeign
    \/ getOrgSchema /\ HistoryForeign
    \/ \E c \in Slots : OrgFetchResolves(c, PayloadA) /\ HistoryForeign
    \/ \E c \in Slots : OrgFetchRejects(c) /\ HistoryForeign
    \/ \E c \in Slots : WriteCompletes(c) /\ HistoryForeign
    \/ cacheClear /\ HistoryForeign
    \/ \E c \in Slots : UnlinkCompletes(c) /\ HistoryForeign
    \/ Tick(MaxTime) /\ HistoryForeign

SpecForeign == Init /\ [][NextForeign]_vars

\* One child process after another, writing any lines and closing with any
\* code, under the three 'close' listeners of the sources.
KeepServer ==
    UNCHANGED << schemaCache, schemaCacheTime, objectFieldsCache, isRefreshing, file,
                 now, nextSweep, started, crashed, calls, ev, fetchedOnce, cleared,
                 maxSchemaTime, maxObjectTime, bootRefused, origin, saved, lastBg, owed,
                 sentIds, earlier, newerDone, mcp, sse >>
NextGateway ==
    \/ Spawn /\ KeepServer
    \/ \E line \in StdoutLines : StdoutData(line) /\ KeepServer
    \/ \E chunk \in StderrChunks : StderrData(chunk) /\ KeepServer
    \/ \E code \in ExitCodes : Close(code) /\ KeepServer

SpecGateway == Init /\ [][NextGateway]_vars

(* ------------------------------ properties ----------------------------- *)
Age == now - schemaCacheTime
Stale == Truthy(schemaCache) /\ schemaCacheTime # NoTime /\ Age >= SCHEMA_CACHE_TTL
\* The step just taken was a getOrgSchema call answered from the cache.
ServedFromCache == ev.op = "getOrgSchema" /\ Truthy(schemaCache) /\ ev.ret = schemaCache

\* C1: a getOrgSchema call that finds a stale value while a fetch of the org
\* schema is already in flight starts no fetch of its own, so a burst of N
\* calls on a stale key starts one fetch in total.
C1_SingleFlightStale ==
    [][ (ev'.op = "getOrgSchema" /\ Stale /\ OrgFetches(calls) # {})
            => OrgFetches(calls') = OrgFetches(calls) ]_vars

\* C2: a getOrgSchema call that finds the cache empty while a fetch of the org
\* schema is already in flight (the startup refresh included) starts no fetch
\* of its own, so a cold burst starts one fetch in total.
C2_ColdBurstOneFetch ==
    [][ (ev'.op = "getOrgSchema" /\ schemaCache = NULL /\ OrgFetches(calls) # {})
            => OrgFetches(calls') = OrgFetches(calls) ]_vars

\* C3: in every reachable state at most one fetch of the org schema is in
\* flight, whoever started it.
C3_AtMostOneOrgFetch == Cardinality(OrgFetches(calls)) <= 1

\* C4: a refresh operation whose fetch fails has changed no cached value, from
\* its first statement to its last: not when it began (evicted) and not when
\* it handled the failure.
C4_FailedRefreshKeepsValue ==
    [][ (ev'.op \in {"refresh:caught", "getObjectSchema:caught"})
            => /\ schemaCache' = schemaCache
               /\ schemaCacheTime' = schemaCacheTime
               /\ objectFieldsCache' = objectFieldsCache
               /\ (ev'.op = "refresh:caught" => ~calls[0].evicted) ]_vars

\* C5: a getOrgSchema call on a value of age < SCHEMA_CACHE_TTL, and a
\* getObjectSchema call on an entry of age < OBJECT_CACHE_TTL, returns the
\* cached value, starts no gateway call and no file operation, and leaves the
\* caches, the timestamps, isRefreshing and the file as they were.
C5_FreshHitFrame ==
    [][ /\ (ev'.op = "getOrgSchema" /\ Truthy(schemaCache)
              /\ schemaCacheTime # NoTime /\ Age < SCHEMA_CACHE_TTL)
           => /\ ev'.ret = schemaCache
              /\ UNCHANGED << schemaCache, schemaCacheTime, objectFieldsCache,
                              isRefreshing, file, calls >>
        /\ \A n \in Names :
             (ev'.op = "getObjectSchema" /\ ev'.arg = n
                /\ objectFieldsCache[n] # NoEntry
                /\ now - objectFieldsCache[n].timestamp < OBJECT_CACHE_TTL)
             => /\ ev'.ret = objectFieldsCache[n].data
                /\ UNCHANGED << schemaCache, schemaCacheTime, objectFieldsCache,
                                isRefreshing, file, calls >> ]_vars
C5_Witness ==
    /\ ServedFromCache /\ Age < SCHEMA_CACHE_TTL
    /\ objectFieldsCache["Account"] # NoEntry
    /\ now - objectFieldsCache["Account"].timestamp < OBJECT_CACHE_TTL

C7_TimestampMonotone ==
    /\ schemaCacheTime # NoTime => schemaCacheTime >= maxSchemaTime
    /\ \A n \in Names :
         objectFieldsCache[n] # NoEntry
            => objectFieldsCache[n].timestamp >= maxObjectTime[n]
\* A second fetch wrote the cache while an earlier, still unfinished one had
\* written it at an earlier instant.
C7_Witness ==
    /\ ev.op = "refresh:ok"
    /\ \E c \in HandlerSlots :
         /\ calls[c].kind = "cold" /\ calls[c].pc = "save"
         /\ calls[c].doc.timestamp < schemaCacheTime

\* C8: no failure of a background refresh ends in an uncaught exception.
C8_BackgroundFailureContained ==
    ev.op = "uncaughtException" => ev.arg # "bg"

\* C9: when getOrgSchema's own fetch fails, what it returns is the hard-coded
\* fallback list, which is not null, not undefined, and not empty.
C9_ColdFailureFallback ==
    ev.op = "getOrgSchema:caught"
        => /\ ev.ret = Fallback
           /\ Truthy(ev.ret)
           /\ Len(ev.ret.standard) + Len(ev.ret.custom) > 0
C9_Witness == ev.op = "getOrgSchema:caught" /\ schemaCache = NULL

\* C10: from the answer of /cache/clear until a new fetch is started, the
\* org-schema cache is null, the object cache is empty and the file is absent.
C10_ClearedStaysEmpty ==
    cleared => /\ schemaCache = NULL
               /\ schemaCacheTime = NoTime
               /\ objectFieldsCache = EmptyMap
               /\ file = Absent

\* Two snapshots are equal in all fields: every property read gives the same
\* value in both (an absent property reads as undefined).
JsEq(a, b) ==
    /\ StringifyList(a.standard) = StringifyList(b.standard)
    /\ StringifyList(a.custom) = StringifyList(b.custom)

\* C11 as stated: at startup a file that is absent, cut short or at least
\* SCHEMA_CACHE_TTL old leaves the cache empty, and every value getOrgSchema
\* returns in that run comes from a fetch.
C11_RefusedFileNotServed ==
    /\ (ev.op = "startup" /\ Refused(file, now))
          => (schemaCache = NULL /\ schemaCacheTime = NoTime)
    /\ (bootRefused /\ ev.op = "getOrgSchema" /\ ev.ret # PENDING) => origin = "fetch"
    /\ (bootRefused /\ ev.op = "getOrgSchema:ret") => origin = "fetch"
    /\ bootRefused => ev.op # "getOrgSchema:caught"
\* C11 as amended: such a file leaves the cache empty, and every value
\* getOrgSchema returns in that run comes from a fetch or, when the call's own
\* fetch failed, is the fallback list; none comes from the file.
C11_RefusedFileFetchOrFallback ==
    /\ (ev.op = "startup" /\ Refused(file, now))
          => (schemaCache = NULL /\ schemaCacheTime = NoTime)
    /\ (bootRefused /\ ev.op = "getOrgSchema" /\ ev.ret # PENDING) => origin = "fetch"
    /\ (bootRefused /\ ev.op = "getOrgSchema:ret") => origin = "fetch"
    /\ (bootRefused /\ ev.op = "getOrgSchema:caught") => ev.ret = Fallback
\* A value is served from the cache while the expired file is still on disk.
C11_Witness ==
    /\ bootRefused /\ ServedFromCache
    /\ Parses(file) /\ now - Parse(file).timestamp >= SCHEMA_CACHE_TTL

\* C12: a startup that finds the file a completed saveCacheToDisk of (s, t)
\* wrote, while now - t < SCHEMA_CACHE_TTL, leaves schemaCache equal to s in
\* all fields and schemaCacheTime equal to t and spawns nothing, and so does a
\* getOrgSchema call made while the loaded value is still fresh.
C12_RoundTrip ==
    [][ /\ (ev'.op = "startup" /\ saved # NULL
              /\ now - saved.timestamp < SCHEMA_CACHE_TTL)
           => /\ Truthy(schemaCache')
              /\ JsEq(schemaCache', saved.schema)
              /\ schemaCacheTime' = saved.timestamp
              /\ InQuery(calls') = {}
        /\ (ev'.op = "getOrgSchema" /\ origin = "file"
              /\ now - schemaCacheTime < SCHEMA_CACHE_TTL)
           => /\ ev'.ret = schemaCache
              /\ calls' = calls ]_vars
\* A loaded snapshot, one of whose properties held undefined when it was
\* saved, is served from the cache.
C12_Witness ==
    /\ ServedFromCache /\ origin = "file" /\ saved # NULL
    /\ schemaCache # saved.schema

\* The text `sub` occurs in the text `text` (texts are sequences of chunks).
Contains(text, sub) ==
    \E i \in 0..(Len(text) - Len(sub)) : SubSeq(text, i + 1, i + Len(sub)) = sub

\* C13: when the child closes with a non-zero code, executeMCPQuery (of either
\* server) rejects, and the error's message contains what the child wrote to
\* stderr, whatever it wrote to stdout.
C13_FailureCarriesStderr ==
    (gw.pc = "closed" /\ gw.code # 0)
        => \A settled \in {gw.query, gw.queryApi} :
              /\ settled.kind = "reject"
              /\ Contains(settled.text, gw.errorOutput)

\* The output is diagnostic and blank lines followed by one response line.
DiagnosticsThenResponse(output) ==
    /\ Len(output) >= 1
    /\ IsJson(output[Len(output)])
    /\ \A i \in 1..(Len(output) - 1) : output[i] \in {BlankLine, DiagLine}

\* C14: when the child exits 0 having written diagnostic lines, blank lines
\* and a final JSON-RPC response line, each close handler succeeds with what
\* it makes of the final line alone.
C14_LastLineOnly ==
    (gw.pc = "closed" /\ gw.code = 0 /\ DiagnosticsThenResponse(gw.output))
        => LET last == << gw.output[Len(gw.output)] >> IN
           /\ gw.query.kind = "resolve"
           /\ gw.query = executeMCPQuery(0, last, << >>)
           /\ gw.queryApi.kind = "resolve"
           /\ gw.queryApi = executeMCPQueryApi(0, last)
           /\ gw.http.status = 200
           /\ gw.http = postMcp(0, last, << >>)

\* The payload the specification of unwrapping gives for a parsed response.
Unwrapped(r) ==
    IF NestedText(r) # UNDEFINED /\ IsJson(NestedText(r)) THEN NestedText(r).json
    ELSE IF "result" \in DOMAIN r THEN r.result
    ELSE r

\* C15: for every parsed response r, executeMCPQuery resolves with the parsed
\* text of r.result.content[0].text when that text is JSON, otherwise with
\* r.result when present, otherwise with r.
C15_Unwrapping ==
    (gw.pc = "closed" /\ gw.code = 0 /\ NonBlankLines(gw.output) # << >>
       /\ IsJson(NonBlankLines(gw.output)[Len(NonBlankLines(gw.output))]))
        => gw.query =
             Resolve(Unwrapped(NonBlankLines(gw.output)[Len(NonBlankLines(gw.output))].json))

\* C16: after a background refresh has succeeded with a snapshot, every
\* getOrgSchema call that begins before the next successful fetch or clear
\* returns that snapshot, at once or when it resumes.
C16_ServesRefreshed ==
    [][ /\ (ev'.op = "getOrgSchema" /\ lastBg # NULL /\ ev'.ret # PENDING)
           => ev'.ret = lastBg
        /\ \A c \in HandlerSlots :
             (calls[c].kind = "cold" /\ calls'[c].kind = "free" /\ owed[c] # NULL)
                => ev'.ret = owed[c] ]_vars

\* C18: a getOrgSchema call that finds a stale value returns it in the same
\* step, with a refresh in flight or without.
C18_StaleServedAtOnce ==
    [][ (ev'.op = "getOrgSchema" /\ Stale) => ev'.ret = schemaCache ]_vars

\* C19: a getObjectSchema call that finds an entry of age >= OBJECT_CACHE_TTL
\* returns the entry's data in the same step.
C19_StaleEntryServedAtOnce ==
    [][ \A n \in Names :
          (ev'.op = "getObjectSchema" /\ ev'.arg = n
             /\ objectFieldsCache[n] # NoEntry
             /\ now - objectFieldsCache[n].timestamp >= OBJECT_CACHE_TTL)
          => ev'.ret = objectFieldsCache[n].data ]_vars

\* C17: a direct query always goes to the gateway, whatever the caches hold,
\* and neither its start nor its success nor its failure changes schemaCache,
\* schemaCacheTime, objectFieldsCache, isRefreshing or the snapshot file.
C17_DirectQueryFrame ==
    [][ /\ (ev'.op = "directQuery")
           => (ev'.ret = PENDING /\ InQuery(calls') # InQuery(calls))
        /\ (ev'.op \in {"directQuery", "directQuery:ret", "directQuery:caught"})
           => UNCHANGED << schemaCache, schemaCacheTime, objectFieldsCache,
                           isRefreshing, file >> ]_vars
\* A direct query has answered while both caches hold a value and a refresh
\* is running.
C17_Witness ==
    /\ ev.op = "directQuery:ret"
    /\ Truthy(schemaCache) /\ isRefreshing
    /\ objectFieldsCache["Account"] # NoEntry

\* C20: isRefreshing, once true, becomes false again, after a fetch that
\* succeeded and after one that failed; and while it is false a getOrgSchema
\* call or a sweep that meets a stale value starts a fetch.
C20_FlagReleased ==
    /\ isRefreshing ~> ~isRefreshing
    /\ [][ (~isRefreshing /\ Stale /\ ev'.op \in {"getOrgSchema", "sweep"})
             => (isRefreshing' /\ 0 \in OrgFetches(calls')) ]_vars
\* A failed refresh has released the flag, the stale value still cached.
C20_Witness == ev.op = "refresh:caught" /\ ~isRefreshing /\ Stale

\* C21: schemaCache goes from holding a value to null only in a step of
\* /cache/clear: no read, refresh, sweep, manual refresh or failure empties it.
C21_OnlyClearEmpties ==
    [][ (Truthy(schemaCache) /\ schemaCache' = NULL)
            => ev'.op \in {"cacheClear", "cacheClear:ret"} ]_vars

\* The last line of the output that parses as JSON is followed by at least one
\* line that is neither blank nor JSON.
JsonThenGarbage(output) ==
    /\ SelectSeq(output, IsJson) # << >>
    /\ NonBlankLines(output) # << >>
    /\ ~IsJson(NonBlankLines(output)[Len(NonBlankLines(output))])
LastJsonLine(output) ==
    SelectSeq(output, IsJson)[Len(SelectSeq(output, IsJson))]

\* C22: when the child exits 0 and the last JSON line of its output is followed
\* by lines that do not parse, executeMCPQuery (of either server) settles as it
\* does on that JSON line alone, whenever that is a success.
C22_LastParsableLine ==
    (gw.pc = "closed" /\ gw.code = 0 /\ JsonThenGarbage(gw.output))
        => LET alone == << LastJsonLine(gw.output) >> IN
           /\ executeMCPQuery(0, alone, << >>).kind = "resolve"
                 => gw.query = executeMCPQuery(0, alone, << >>)
           /\ executeMCPQueryApi(0, alone).kind = "resolve"
                 => gw.queryApi = executeMCPQueryApi(0, alone)

\* An object-field fetch for the name n is in flight.
ObjFetchInFlight(cs, n) ==
    \E c \in InQuery(cs) : cs[c].kind = "obj" /\ cs[c].name = n

\* C23: a sweep tick starts a background fetch for the org schema when its
\* value is stale and no refresh is running, and for every object name whose
\* entry is at least OBJECT_CACHE_TTL old and has no fetch in flight.
C23_SweepCoversEveryKey ==
    [][ (ev'.op = "sweep")
          => /\ (Stale /\ ~isRefreshing) => 0 \in OrgFetches(calls')
             /\ \A n \in Names :
                  (objectFieldsCache[n] # NoEntry
                     /\ now - objectFieldsCache[n].timestamp >= OBJECT_CACHE_TTL
                     /\ ~ObjFetchInFlight(calls, n))
                  => ObjFetchInFlight(calls', n) ]_vars

\* C24: a call of executeMCPQuery has spawned one process, written one
\* newline-terminated request to its stdin and ended it; its promise is not
\* settled while the child runs, and is settled by exactly one call of resolve
\* or reject once the child has closed.
C24_OneSpawnOneSettle ==
    gw.pc \in {"running", "closed"}
        => /\ gw.spawned = 1
           /\ Len(gw.stdin) = 1 /\ gw.stdin[1].newline /\ gw.stdinEnded
           /\ gw.pc = "running" => gw.settles = << >>
           /\ gw.pc = "closed" => (Len(gw.settles) = 1 /\ gw.query = gw.settles[1])
\* The child has closed with a non-zero code after writing to both streams.
C24_Witness ==
    /\ gw.pc = "closed" /\ gw.code # 0
    /\ gw.output # << >> /\ gw.errorOutput # << >>
    /\ Len(gw.settles) = 1

\* C25: loadCacheFromDisk never takes for a snapshot a file that no
\* saveCacheToDisk wrote whole.
C25_NoTornSnapshot ==
    (ev.op = "startup" /\ "torn" \in DOMAIN file) => schemaCache = NULL

\* C26: an error of the snapshot file is not fatal.  A write that fails leaves
\* the caches as they are and getOrgSchema returns the snapshot it fetched; a
\* file that cannot be read or parsed leaves the server started with an empty
\* cache; a failed unlink leaves /cache/clear answering success, the caches
\* having been emptied when it began.
C26_FileErrorsNotFatal ==
    [][ /\ ~crashed'
        /\ \A c \in HandlerSlots :
             (calls[c].kind = "cold" /\ calls[c].pc = "save" /\ calls'[c].kind = "free")
                => /\ ev'.ret = calls[c].doc.schema
                   /\ UNCHANGED << schemaCache, schemaCacheTime, objectFieldsCache >>
        /\ (ev'.op = "startup" /\ ~Parses(file))
                => (started' /\ schemaCache' = NULL /\ schemaCacheTime' = NoTime)
        /\ (ev'.op = "cacheClear")
                => (schemaCache' = NULL /\ objectFieldsCache' = EmptyMap)
        /\ (\E c \in HandlerSlots : calls[c].pc = "unlink" /\ calls'[c].kind = "free")
                => ev'.ret = OK ]_vars
\* getOrgSchema has returned the snapshot it fetched although its write of the
\* file failed.
C26_Witness ==
    /\ ev.op = "getOrgSchema:ret" /\ Truthy(schemaCache) /\ ev.ret = schemaCache
    /\ file = Absent

\* C27: any two executeMCPQuery invocations of the process send different
\* request ids: the id an invocation sends was sent by none before it.
C27_DistinctRequestIds ==
    [][ \A c \in Slots : StartsQuery(c) => RequestId \notin sentIds ]_vars

\* C30: when two org-schema fetches overlap, a result of the one that began
\* earlier does not replace in the cache the result of the one that began
\* later: a fetch that stores its result after a later-begun fetch stored one
\* leaves the cache holding the later-begun fetch's snapshot.
C30_LaterStartedWins ==
    [][ \A c \in Slots :
          (StoresResult(c) /\ newerDone[c] # NULL) => schemaCache' = newerDone[c] ]_vars

\* The steps that stand for a trigger: startup, a read, a sweep tick, a
\* manual refresh, a direct query.
TriggerOps ==
    {"startup", "getOrgSchema", "getObjectSchema", "sweep", "cacheRefresh", "directQuery"}
\* The invocations that spawn a child in this step.
Spawning == { c \in Slots : calls'[c].spawned > calls[c].spawned }

\* C28: no automatic retry.  A step spawns at most one child, and only a
\* trigger step spawns one: the step in which a gateway call fails, or in
\* which anything else completes, spawns none.
C28_NoAutomaticRetry ==
    [][ /\ Cardinality(Spawning) <= (IF ev'.op \in TriggerOps THEN 1 ELSE 0)
        /\ \A c \in Spawning : calls'[c].spawned = calls[c].spawned + 1 ]_vars
\* A refresh has failed and no gateway call is in flight.
C28_Witness ==
    /\ ev.op = "refresh:caught" /\ InQuery(calls) = {} /\ ~isRefreshing

\* C29: isRefreshing is true exactly while an invocation of
\* refreshSchemaInBackground is between setting the flag and its finally block,
\* and an invocation enters that section only when none is inside it.
C29_OneRefreshAtATime ==
    [][ /\ isRefreshing = (calls[0].kind = "bg")
        /\ isRefreshing' = (calls'[0].kind = "bg")
        /\ (calls'[0].pc = "query" /\ calls'[0] # calls[0])
              => (calls[0].kind = "free" /\ ~isRefreshing) ]_vars
\* A refresh is inside the section, past its query, and a manual refresh has
\* just called refreshSchemaInBackground.
C29_Witness ==
    /\ isRefreshing /\ calls[0].pc = "save"
    /\ ev.op = "cacheRefresh"

\* Nothing is suspended: no fetch, no write and no unlink is in flight.
Quiescent == started /\ ~crashed /\ \A c \in Slots : calls[c].kind = "free"

\* C31: with persistence enabled and file operations that succeed, whenever
\* nothing is in flight the snapshot file agrees with memory: it is the text of
\* {schema: schemaCache, timestamp: schemaCacheTime} when the cache holds a
\* value, and is absent or carries schemaCacheTime otherwise.  A file that an
\* earlier run left and that this run has not replaced is set aside.
C31_FileAgreesWithMemory ==
    (ENABLE_PERSISTENT_CACHE /\ Quiescent /\ file \notin InitFiles \ {Absent})
        => IF Truthy(schemaCache)
           THEN file = Stringify(CacheData(schemaCache, schemaCacheTime))
           ELSE \/ file = Absent
                \/ Parses(file) /\ Parse(file).timestamp = schemaCacheTime

\* The schema built from a reply that carries no records.
NoRecordsSchema == BuildObjects(PayloadError)

\* C32: a reply that exits 0 but carries no records never puts the empty
\* schema in the place of what the cache holds and never stamps the cache:
\* no step makes the cache the empty schema, and none restamps it as such.
C32_NoRecordsNotCached ==
    [][ schemaCache' = NoRecordsSchema
          => (schemaCache = NoRecordsSchema /\ schemaCacheTime' = schemaCacheTime) ]_vars

\* C33: the hard-coded list returned after getOrgSchema's own fetch failed is
\* never written to the cache or to the snapshot file.  The failing call
\* leaves schemaCache, schemaCacheTime and the file as they were, so a cache
\* that was empty is still empty, and a getOrgSchema call that finds the cache
\* empty begins a fetch.
C33_FallbackNeverCached ==
    [][ /\ schemaCache' # Fallback
        /\ \A t \in 0..(StartTime + MaxSweepTime) :
              file' # Stringify(CacheData(Fallback, t))
        /\ (ev'.op = "getOrgSchema:caught")
              => (ev'.ret = Fallback /\ UNCHANGED << schemaCache, schemaCacheTime, file >>)
        /\ (ev'.op = "getOrgSchema" /\ ~Truthy(schemaCache))
              => (ev'.ret = PENDING /\ \E c \in HandlerSlots : StartsFetch(c)) ]_vars
\* getOrgSchema has just returned the fallback list and the cache is empty.
C33_Witness ==
    ev.op = "getOrgSchema:caught" /\ ev.ret = Fallback /\ schemaCache = NULL

\* POST /cache/refresh has just answered with success: at once, a refresh
\* being in flight already, or when the refresh it awaited ended.
RefreshAnswered ==
    \/ ev.op = "cacheRefresh" /\ ev.ret = OK
    \/ ev.op \in {"refresh:done", "refresh:caught"} /\ ev.ret = OK

\* C34: when POST /cache/refresh answers with success the org-schema cache
\* holds a snapshot; it does not answer with success while the cache is empty.
C34_RefreshAnswersWithSnapshot ==
    RefreshAnswered => Truthy(schemaCache)

\* C35: getObjectSchema(A), at its call and when its fetch settles, leaves
\* schemaCache, schemaCacheTime, isRefreshing, the snapshot file and the entry
\* of every other object as they were; a hit leaves A's entry too; a failure
\* leaves A's entry and throws to the caller.
C35_ObjectReadFrame ==
    [][ (ev'.op \in {"getObjectSchema", "getObjectSchema:ret", "getObjectSchema:caught"})
          => /\ UNCHANGED << schemaCache, schemaCacheTime, isRefreshing, file >>
             /\ \A B \in Names \ {ev'.arg} : objectFieldsCache'[B] = objectFieldsCache[B]
             /\ (ev'.op = "getObjectSchema") => UNCHANGED objectFieldsCache
             /\ (ev'.op = "getObjectSchema:caught")
                   => (UNCHANGED objectFieldsCache /\ ev'.ret = THROWN) ]_vars
\* getObjectSchema("Account") has just thrown while the cache holds an org
\* schema and an entry for Contact.
C35_Witness ==
    /\ ev.op = "getObjectSchema:caught" /\ ev.arg = "Account"
    /\ objectFieldsCache["Contact"] # NoEntry
    /\ Truthy(schemaCache)

\* C36: the MCP runtime child is started at most 1 + MCP_MAX_RESTARTS times:
\* mcpRestartAttempts never decreases, a step schedules at most one restart,
\* and once mcpRestartAttempts is above MCP_MAX_RESTARTS no restart is
\* scheduled, however long the children ran.
C36_BoundedRestarts ==
    [][ /\ mcp'.starts <= 1 + MCP_MAX_RESTARTS
        /\ mcp'.mcpRestartAttempts >= mcp.mcpRestartAttempts
        /\ Cardinality(mcp'.timers \ mcp.timers) <= 1
        /\ mcp'.mcpRestartAttempts > MCP_MAX_RESTARTS => mcp'.timers \subseteq mcp.timers ]_vars
\* The fourth child has exited and nothing is scheduled.
C36_Witness ==
    /\ mcp.starts = 1 + MCP_MAX_RESTARTS
    /\ mcp.mcpRestartAttempts = MCP_MAX_RESTARTS + 1
    /\ mcp.alive = 0 /\ mcp.timers = {}

\* C37: the session map holds exactly the session ids of the connections
\* opened by GET /sse and not yet closed; POST /messages under an id that is
\* not in the map answers 400 and hands the request to no transport; under an
\* id in the map the request goes to that id's transport; and an id whose
\* connection has closed is not served.
C37_SessionMap ==
    /\ sse.transports = sse.open
    /\ sse.open \cap sse.closed = {}
    /\ sse.last.op = "messages"
         => /\ sse.last.sessionId \notin sse.transports
                 => (sse.last.status = 400 /\ sse.last.to = NoTransport)
            /\ sse.last.sessionId \in sse.transports
                 => sse.last.to = sse.last.sessionId
            /\ sse.last.sessionId \in sse.closed => sse.last.status = 400
\* A message was posted under the id of a connection that has closed, while
\* another connection is open.
C37_Witness ==
    /\ sse.last.op = "messages" /\ sse.last.sessionId \in sse.closed
    /\ sse.last.status = 400 /\ sse.open # {}

\* C38: in every reachable state schemaCache holds a value exactly when
\* schemaCacheTime does, whatever parseable file loadCacheFromDisk read.
C38_CacheAndTimeTogether ==
    Truthy(schemaCache) <=> schemaCacheTime # NoTime

\* C39: in the uncached variant the 'close' listener, on a non-zero exit
\* code, calls reject and then runs the parse-and-resolve block as well; the
\* promise is settled by the first call alone, so a non-zero exit yields the
\* rejection 'MCP process failed' whatever stdout holds.
C39_NonZeroExitRejects ==
    (gw.pc = "closed" /\ gw.code # 0)
        => /\ Len(gw.settlesApi) = 2
           /\ gw.settlesApi[1] = Reject(<< "MCP process failed" >>, << >>)
           /\ gw.queryApi = gw.settlesApi[1]
\* The child exited with a non-zero code after writing a response that
\* parses: resolve was called after reject, and the promise is rejected.
C39_Witness ==
    /\ gw.pc = "closed" /\ gw.code # 0
    /\ gw.settlesApi[2].kind = "resolve"
    /\ gw.queryApi.kind = "reject"

====
